---- MODULE Spec2Model ----
(***************************************************************************)
(* poll_engine: a registry (CounterList) of Mercury-230 meters polled over *)
(* one shared serial channel (SerialChannel).  Model of src/src/main.rs.   *)
(*                                                                         *)
(* Rust indexes vectors from 0; At(s, i) is the source's s[i].             *)
(* A panic unwinds the single thread (dropping every RefCell guard on the  *)
(* stack) and, nothing in main catching it, ends the process: pc becomes   *)
(* "panicked".  A fault of the unsafe block ends it without unwinding:     *)
(* pc becomes "crashed".                                                   *)
(***************************************************************************)
EXTENDS Integers, Sequences, FiniteSets, TLC

\* ------------------------------------------------------------------ bounds
MaxCounters == 2        \* devices pushed to the list
NumUuids == 2           \* distinct values Uuid::new_v4 may draw

\* ------------------------------------------------------- program constants
FrameMax == 255         \* (0..255).collect(): the read buffer, 255 bytes
NewAddress == 0         \* IMercury230::new: address: 0

\* --------------------------------------------------------------- helpers
At(s, i) == s[i + 1]

\* ------------------------------------------------------------------ CRC-32
\* crc32::checksum_ieee: reflected CRC-32, polynomial 0xEDB88320, initial
\* value and final xor 0xFFFFFFFF.  A 32-bit word is a function 0..31 -> 0..1
\* (bit 0 the least significant).
Bit(n, k) == (n \div (2 ^ k)) % 2

PolyLow == 33568        \* 0xEDB88320 = PolyHigh * 65536 + PolyLow
PolyHigh == 60856

Poly == [k \in 0..31 |-> IF k < 16 THEN Bit(PolyLow, k) ELSE Bit(PolyHigh, k - 16)]

Ones == [k \in 0..31 |-> 1]

Xor(a, b) == [k \in 0..31 |-> (a[k] + b[k]) % 2]

ShiftRight(a) == [k \in 0..31 |-> IF k = 31 THEN 0 ELSE a[k + 1]]

ByteWord(b) == [k \in 0..31 |-> IF k < 8 THEN Bit(b, k) ELSE 0]

RECURSIVE CrcBits(_, _)
CrcBits(w, n) ==
    IF n = 0 THEN w
    ELSE CrcBits(IF w[0] = 1 THEN Xor(ShiftRight(w), Poly) ELSE ShiftRight(w), n - 1)

RECURSIVE CrcUpdate(_, _)
CrcUpdate(w, data) ==
    IF data = <<>> THEN w
    ELSE CrcUpdate(CrcBits(Xor(w, ByteWord(Head(data))), 8), Tail(data))

checksum_ieee(data) == Xor(CrcUpdate(Ones, data), Ones)

\* byte j (0 the least significant) of a 32-bit word
WordByte(w, j) ==
    w[8*j] + 2*w[8*j+1] + 4*w[8*j+2] + 8*w[8*j+3]
    + 16*w[8*j+4] + 32*w[8*j+5] + 64*w[8*j+6] + 128*w[8*j+7]

LittleEndian(w) == <<WordByte(w, 0), WordByte(w, 1), WordByte(w, 2), WordByte(w, 3)>>

\* -------------------------------------------------------------- values
\* An f64 is kept as the 8 bytes it was read from (big-endian) and the
\* divisor applied to it; 0.0 is eight zero bytes.
F64Zero == [be |-> <<0, 0, 0, 0, 0, 0, 0, 0>>, div |-> 1]

F64Div(x, d) == [be |-> x.be, div |-> x.div * d]

\* byteorder: Cursor::read_f64::<BigEndian> needs 8 bytes, else UnexpectedEof
read_f64(cursor) ==
    IF Len(cursor) < 8
    THEN [ok |-> FALSE, val |-> F64Zero]
    ELSE [ok |-> TRUE, val |-> [be |-> SubSeq(cursor, 1, 8), div |-> 1]]

\* Option<T>: <<>> is None, <<x>> is Some(x)
None == <<>>

\* String::new()
EmptyString == <<>>

HexDigits == <<"0", "1", "2", "3", "4", "5", "6", "7",
               "8", "9", "a", "b", "c", "d", "e", "f">>

\* format!("{}", Uuid): 36 characters, hyphens after 8, 12, 16 and 20 digits,
\* version digit 4; the random bits are u.
FormatUuid(u) ==
    [i \in 1..36 |->
        IF i \in {9, 14, 19, 24} THEN "-"
        ELSE IF i = 15 THEN "4"
        ELSE IF i = 36 THEN HexDigits[(u % 16) + 1]
        ELSE IF i = 35 THEN HexDigits[((u \div 16) % 16) + 1]
        ELSE "0"]

Uuids == 1..NumUuids

\* The unsafe block of communicate: Vec::from_raw_parts(my_crc as *mut u8, 4, 4)
\* takes the checksum's VALUE for the address of a 4-byte heap buffer.
\* Undefined behaviour: append reads whatever 4 bytes lie at that address
\* (by chance possibly the checksum's own bytes) or faults, and dropping the
\* vector frees a pointer the allocator never gave out.
\* The outcomes: a fault, or memory that holds zeros, other bytes, or the
\* checksum's own little-endian bytes.
AppendOutcomes == {"fault", "zeros", "garbage", "same"}

from_raw_parts(crc, a) ==
    IF a = "same" THEN LittleEndian(crc)
    ELSE IF a = "zeros" THEN <<0, 0, 0, 0>>
    ELSE <<222, 173, 190, 239>>

DropOutcomes == {"ok", "fault"}

\* ------------------------------------------------------------- IMercury230
\* IMercury230::new
NewCounter ==
    [_consumption |-> F64Zero, _serial |-> None, _name |-> None,
     guid |-> EmptyString, address |-> NewAddress]

\* Faulty variant: a guid that draws a new Uuid at every call
MutGuidAlwaysNew(self, u) ==
    LET s == [self EXCEPT !.guid = FormatUuid(u)]
    IN [self |-> s, ret |-> s.guid]

\* IMercury230::guid with u the value Uuid::new_v4 would draw
guid(self, u) ==
    LET s == IF self.guid = EmptyString
             THEN [self EXCEPT !.guid = FormatUuid(u)]
             ELSE self
    IN [self |-> s, ret |-> s.guid]

\* The request of communicate before the checksum is appended
RequestHead(self) == <<self.address, 5, 0, 1>>

\* communicate: the request with the 4 bytes the unsafe block appends
build_request(self, a) ==
    RequestHead(self) \o from_raw_parts(checksum_ieee(RequestHead(self)), a)

\* Faulty variant: a processing that dispatches on bytes 1 and 2, where the frame
\* of communicate has its 5 and 0
MutProcessingShifted(self, req, resp) ==
    IF Len(req) < 4
    THEN [panic |-> "index", arm |-> "none", self |-> self]
    ELSE IF At(req, 1) = 5 /\ At(req, 2) = 0
    THEN IF Len(req) < 5 \/ Len(resp) < 6
         THEN [panic |-> "index", arm |-> "consumption", self |-> self]
         ELSE [panic |-> "eof", arm |-> "consumption", self |-> self]
    ELSE [panic |-> "", arm |-> "other", self |-> self]

\* IMercury230::processing.  panic is "" when it returns; arm is the match
\* arm taken.
processing(self, req, resp) ==
    IF Len(req) < 4
    THEN [panic |-> "index", arm |-> "none", self |-> self]
    ELSE IF At(req, 2) = 5 /\ At(req, 3) = 0
    THEN IF Len(req) < 5 \/ Len(resp) < 6
         THEN [panic |-> "index", arm |-> "consumption", self |-> self]
         ELSE LET rdr == read_f64(<<At(resp, 4), At(resp, 5), At(resp, 2), At(resp, 3)>>)
              IN IF rdr.ok
                 THEN [panic |-> "", arm |-> "consumption",
                       self |-> [self EXCEPT !._consumption = F64Div(rdr.val, 1000)]]
                 ELSE [panic |-> "eof", arm |-> "consumption", self |-> self]
    ELSE [panic |-> "", arm |-> "other", self |-> self]

\* IMercury230::consumption
consumption(self) == self._consumption

\* name, serial, last_verification_date, verification_interval return the
\* Option fields (always None); verification and set_verification_interval
\* return Ok(()).
MetadataOps == {"name", "serial", "verification", "last_verification_date",
                "verification_interval", "set_verification_interval"}

metadata(self, m) ==
    IF m = "name" THEN self._name
    ELSE IF m = "serial" THEN self._serial
    ELSE IF m \in {"verification", "set_verification_interval"} THEN <<"Ok">>
    ELSE None

\* ------------------------------------------------------------ SerialChannel
\* What the serial port does to each call is the environment's choice.
ReconfOutcomes == {"ok", "open_err", "configure_err", "set_timeout_err"}

WriteOutcomes == {"ok", "short", "err"}

Full == [i \in 1..FrameMax |-> (i * 7) % 256]

WireData == {<<>>, <<1, 2, 3>>, <<9, 9, 0, 0, 63, 240>>, Full}

\* A read that times out is Err(TimedOut) in the serial crate.
ReadOutcomes == [kind : {"ok"}, data : WireData]
                \cup {[kind |-> "timeout", data |-> <<>>],
                      [kind |-> "err", data |-> <<>>]}

\* SerialChannel::reconf: the open is unconditional; self.port is assigned
\* only when the open succeeded, and stays Some when configure or
\* set_timeout fails.
\* opened tells whether serial::open was called: it is, whatever p holds.
reconf(p, o) ==
    IF o = "open_err" THEN [port |-> p, panic |-> "open", opened |-> TRUE]
    ELSE IF o = "configure_err"
    THEN [port |-> "Some", panic |-> "configure", opened |-> TRUE]
    ELSE IF o = "set_timeout_err"
    THEN [port |-> "Some", panic |-> "set_timeout", opened |-> TRUE]
    ELSE [port |-> "Some", panic |-> "", opened |-> TRUE]

\* SerialChannel::send: writes only when a port is there; the count that
\* write returns is dropped.
send(p, data, o) ==
    IF p = "Some" /\ o = "err" THEN [panic |-> "write"] ELSE [panic |-> ""]

\* SerialChannel::read
ReadBuffer == [i \in 1..FrameMax |-> i - 1]

ReadInto(buf, d) == [i \in 1..Len(buf) |-> IF i <= Len(d) THEN d[i] ELSE buf[i]]

Truncate(v, n) == IF n < Len(v) THEN SubSeq(v, 1, n) ELSE v

read(p, o) ==
    IF p = "Some"
    THEN IF o.kind = "ok"
         THEN [panic |-> "", ret |-> Truncate(ReadInto(ReadBuffer, o.data), Len(o.data))]
         ELSE [panic |-> IF o.kind = "timeout" THEN "read_timeout" ELSE "read_err",
               ret |-> <<>>]
    ELSE [panic |-> "", ret |-> ReadBuffer]

\* Arguments a caller may hand to IMercury230::processing directly
Requests == {<<0, 5, 0, 1, 97, 45, 136, 80>>, <<0, 0, 5, 0, 1>>, <<0, 0, 5, 0>>,
             <<0, 0, 5, 1, 1>>, <<0, 5>>}

Responses == WireData

\* ------------------------------------------------------------------- state
VARIABLES
    counters,       \* CounterList.counters: the devices, in push order
    borrow,         \* borrow flag of each counter's RefCell: "free", "list", "ext"
    port,           \* SerialChannel.port: "None" or "Some"
    chan_borrow,    \* borrow flag of the channel's RefCell: "free", "counter", "ext"
    pc,             \* where the program is: "main" between calls, or inside a pass
    idx,            \* position of the for loop of CounterList::processing
    request,        \* communicate: the vector consumption
    response,       \* communicate: the vector question
    why,            \* what ended the process, "" while it runs
    last,           \* the last call completed or aborted, and its result
    calls,          \* channel calls made in the current pass, in order, each
                    \* with the bytes it sent or returned
    busy,           \* counters whose RefCell the current pass found borrowed
    pre             \* _consumption of every counter when the pass started

vars == <<counters, borrow, port, chan_borrow, pc, idx, request, response,
          why, last, calls, busy, pre>>

Call(op, dev, env, panic, arm, args, ret) ==
    [op |-> op, dev |-> dev, env |-> env, panic |-> panic, arm |-> arm,
     args |-> args, ret |-> ret]
\* (for processing, ret holds the counter as it was before the call)

NoCall == Call("none", 0, "", "", "", <<>>, <<>>)

\* main, before list.counters.push
Init ==
    /\ counters = <<>>
    /\ borrow = <<>>
    /\ port = "None"
    /\ chan_borrow = "free"
    /\ pc = "main"
    /\ idx = 0
    /\ request = <<>>
    /\ response = <<>>
    /\ why = ""
    /\ last = NoCall
    /\ calls = <<>>
    /\ busy = {}
    /\ pre = <<>>

Devices == 1..Len(counters)

passVars == <<idx, request, response, calls, busy, pre>>

\* ------------------------------------------------------------ main's moves
\* list.counters.push(Box::new(RefCell::new(IMercury230::new(channel))))
Attach ==
    /\ pc = "main"
    /\ Len(counters) < MaxCounters
    /\ counters' = Append(counters, NewCounter)
    /\ borrow' = Append(borrow, "free")
    /\ last' = Call("push", Len(counters) + 1, "", "", "", <<>>, <<>>)
    /\ UNCHANGED <<port, chan_borrow, pc, why, passVars>>

\* A caller keeps a guard on a counter's RefCell (as main's loop does while
\* it prints) or on the channel's, and gives it back.
HoldCounter(d) ==
    /\ pc = "main"
    /\ borrow[d] = "free"
    /\ borrow' = [borrow EXCEPT ![d] = "ext"]
    /\ last' = Call("hold", d, "", "", "", <<>>, <<>>)
    /\ UNCHANGED <<counters, port, chan_borrow, pc, why, passVars>>

ReleaseCounter(d) ==
    /\ pc = "main"
    /\ borrow[d] = "ext"
    /\ borrow' = [borrow EXCEPT ![d] = "free"]
    /\ last' = Call("release", d, "", "", "", <<>>, <<>>)
    /\ UNCHANGED <<counters, port, chan_borrow, pc, why, passVars>>

HoldChannel ==
    /\ pc = "main"
    /\ chan_borrow = "free"
    /\ chan_borrow' = "ext"
    /\ last' = Call("hold", 0, "", "", "", <<>>, <<>>)
    /\ UNCHANGED <<counters, borrow, port, pc, why, passVars>>

ReleaseChannel ==
    /\ pc = "main"
    /\ chan_borrow = "ext"
    /\ chan_borrow' = "free"
    /\ last' = Call("release", 0, "", "", "", <<>>, <<>>)
    /\ UNCHANGED <<counters, borrow, port, pc, why, passVars>>

\* A panic outside a pass: the guards taken for the call are dropped.
Panic(reason) ==
    /\ pc' = "panicked"
    /\ why' = reason

\* Direct calls on a counter, borrowed for the call as main does
\* (try_borrow_mut, so only when no guard is out).
CallGuid(d, u) ==
    /\ pc = "main"
    /\ borrow[d] = "free"
    /\ LET r == guid(counters[d], u)
       IN /\ counters' = [counters EXCEPT ![d] = r.self]
          /\ last' = Call("guid", d, "", "", "", <<>>, r.ret)
    /\ UNCHANGED <<borrow, port, chan_borrow, pc, why, passVars>>

CallProcessing(d, req, resp) ==
    /\ pc = "main"
    /\ borrow[d] = "free"
    /\ LET r == processing(counters[d], req, resp)
       IN /\ counters' = [counters EXCEPT ![d] = r.self]
          /\ last' = Call("processing", d, "", r.panic, r.arm, <<req, resp>>,
                          <<counters[d]>>)
          /\ IF r.panic = "" THEN UNCHANGED <<pc, why>> ELSE Panic(r.panic)
    /\ UNCHANGED <<borrow, port, chan_borrow, passVars>>

CallConsumption(d) ==
    /\ pc = "main"
    /\ borrow[d] = "free"
    /\ last' = Call("consumption", d, "", "", "", <<>>, <<consumption(counters[d])>>)
    /\ UNCHANGED <<counters, borrow, port, chan_borrow, pc, why, passVars>>

CallMetadata(d, m) ==
    /\ pc = "main"
    /\ borrow[d] = "free"
    /\ last' = Call(m, d, "", "", "", <<>>, metadata(counters[d], m))
    /\ UNCHANGED <<counters, borrow, port, chan_borrow, pc, why, passVars>>

\* Direct calls on the channel (channel.borrow_mut() by its owner)
CallReconf(o) ==
    /\ pc = "main"
    /\ chan_borrow = "free"
    /\ LET r == reconf(port, o)
       IN /\ port' = r.port
          /\ last' = Call("reconf", 0, o, r.panic, "", <<port>>,
                          IF r.opened THEN <<"open">> ELSE <<>>)
          /\ IF r.panic = "" THEN UNCHANGED <<pc, why>> ELSE Panic(r.panic)
    /\ UNCHANGED <<counters, borrow, chan_borrow, passVars>>

CallSend(data, o) ==
    /\ pc = "main"
    /\ chan_borrow = "free"
    /\ LET r == send(port, data, o)
       IN /\ last' = Call("send", 0, o, r.panic, "", <<data>>, <<>>)
          /\ IF r.panic = "" THEN UNCHANGED <<pc, why>> ELSE Panic(r.panic)
    /\ UNCHANGED <<counters, borrow, port, chan_borrow, passVars>>

CallRead(o) ==
    /\ pc = "main"
    /\ chan_borrow = "free"
    /\ LET r == read(port, o)
       IN /\ last' = Call("read", 0, o.kind, r.panic, "", <<>>, r.ret)
          /\ IF r.panic = "" THEN UNCHANGED <<pc, why>> ELSE Panic(r.panic)
    /\ UNCHANGED <<counters, borrow, port, chan_borrow, passVars>>

\* ------------------------------------------------ CounterList::processing
\* Faulty variant: a borrow that never fails, as borrow_mut taken for granted
MutBorrowAlwaysOk(flag) == TRUE

\* RefCell::try_borrow_mut is Ok only when no guard is out
try_borrow_mut(flag) == flag = "free"

\* A panic inside a pass unwinds through communicate and processing:
\* counter_borrowed and parent_borrowed are dropped.
Unwind(reason) ==
    /\ pc' = "panicked"
    /\ why' = reason
    /\ borrow' = [borrow EXCEPT ![idx] = "free"]
    /\ chan_borrow' = IF chan_borrow = "counter" THEN "free" ELSE chan_borrow

\* A fault of the unsafe block: the process dies where it stands.
Crash(reason) ==
    /\ pc' = "crashed"
    /\ why' = reason
    /\ UNCHANGED <<borrow, chan_borrow>>

\* list.processing()
StartPass ==
    /\ pc = "main"
    /\ pc' = "for"
    /\ idx' = 1
    /\ request' = <<>>
    /\ response' = <<>>
    /\ calls' = <<>>
    /\ busy' = {}
    /\ pre' = [d \in Devices |-> counters[d]._consumption]
    /\ last' = Call("list.processing", 0, "", "", "", <<>>, <<>>)
    /\ UNCHANGED <<counters, borrow, port, chan_borrow, why>>

\* for counter in &mut self.counters: if let Ok(..) = counter.try_borrow_mut()
TryBorrowOk ==
    /\ pc = "for"
    /\ idx <= Len(counters)
    /\ try_borrow_mut(borrow[idx])
    /\ busy' = IF borrow[idx] # "free" THEN busy \cup {idx} ELSE busy
    /\ borrow' = [borrow EXCEPT ![idx] = "list"]
    /\ pc' = "communicate"
    /\ last' = Call("try_borrow_mut", idx, "", "", "", <<>>, <<"Ok">>)
    /\ UNCHANGED <<counters, port, chan_borrow, idx, request, response, why,
                   calls, pre>>

\* the Err of try_borrow_mut: the loop goes on to the next counter
TryBorrowErr ==
    /\ pc = "for"
    /\ idx <= Len(counters)
    /\ ~try_borrow_mut(borrow[idx])
    /\ busy' = IF borrow[idx] # "free" THEN busy \cup {idx} ELSE busy
    /\ idx' = idx + 1
    /\ last' = Call("try_borrow_mut", idx, "", "", "", <<>>, <<"Err">>)
    /\ UNCHANGED <<counters, borrow, port, chan_borrow, pc, request, response,
                   why, calls, pre>>

\* the loop is over: list.processing() returns to main
PassReturn ==
    /\ pc = "for"
    /\ idx > Len(counters)
    /\ pc' = "main"
    /\ idx' = 0
    /\ calls' = <<>>
    /\ busy' = {}
    /\ pre' = <<>>
    /\ last' = Call("list.processing", 0, "", "", "", <<>>, <<"returned">>)
    /\ UNCHANGED <<counters, borrow, port, chan_borrow, why, request, response>>

\* ------------------------------------------------ IMercury230::communicate
\* let mut parent_borrowed = parent.borrow_mut(): panics when a guard is out
BorrowParent ==
    /\ pc = "communicate"
    /\ IF chan_borrow = "free"
       THEN /\ chan_borrow' = "counter"
            /\ pc' = "reconf"
            /\ last' = Call("borrow_mut", idx, "", "", "", <<>>, <<>>)
            /\ UNCHANGED <<borrow, why>>
       ELSE /\ Unwind("BorrowMutError")
            /\ last' = Call("borrow_mut", idx, "", "BorrowMutError", "", <<>>, <<>>)
    /\ UNCHANGED <<counters, port, passVars>>

\* parent_borrowed.reconf()
ReconfStep(o) ==
    /\ pc = "reconf"
    /\ LET r == reconf(port, o)
       IN /\ port' = r.port
          /\ last' = Call("reconf", idx, o, r.panic, "", <<port>>,
                          IF r.opened THEN <<"open">> ELSE <<>>)
          /\ IF r.panic = ""
             THEN pc' = "build" /\ UNCHANGED <<borrow, chan_borrow, why>>
             ELSE Unwind(r.panic)
    /\ calls' = Append(calls, [op |-> "reconf", dev |-> idx, data |-> <<>>])
    /\ UNCHANGED <<counters, idx, request, response, busy, pre>>

\* vec![self.address, 05, 00, 01], checksum_ieee, from_raw_parts, append
BuildStep(a) ==
    /\ pc = "build"
    /\ IF a = "fault"
       THEN /\ Crash("from_raw_parts")
            /\ UNCHANGED request
       ELSE /\ request' = build_request(counters[idx], a)
            /\ pc' = "send"
            /\ UNCHANGED <<borrow, chan_borrow, why>>
    /\ last' = Call("build", idx, a, "", "", <<>>, <<>>)
    /\ UNCHANGED <<counters, port, idx, response, calls, busy, pre>>

\* parent_borrowed.send(&consumption)
SendStep(o) ==
    /\ pc = "send"
    /\ LET r == send(port, request, o)
       IN /\ last' = Call("send", idx, o, r.panic, "", <<request>>, <<>>)
          /\ IF r.panic = ""
             THEN pc' = "read" /\ UNCHANGED <<borrow, chan_borrow, why>>
             ELSE Unwind(r.panic)
    /\ calls' = Append(calls, [op |-> "send", dev |-> idx, data |-> request])
    /\ UNCHANGED <<counters, port, idx, request, response, busy, pre>>

\* Faulty variant: the response is never read before processing
MutReadStepSkipped(o) ==
    /\ pc = "read"
    /\ o.kind = "ok"
    /\ response' = <<>>
    /\ pc' = "processing"
    /\ last' = Call("read", idx, "skipped", "", "", <<>>, <<>>)
    /\ UNCHANGED <<counters, borrow, port, chan_borrow, idx, request, why,
                   calls, busy, pre>>

\* let question = parent_borrowed.read()
ReadStep(o) ==
    /\ pc = "read"
    /\ LET r == read(port, o)
       IN /\ last' = Call("read", idx, o.kind, r.panic, "", <<>>, r.ret)
          /\ response' = r.ret
          /\ calls' = Append(calls, [op |-> "read", dev |-> idx, data |-> r.ret])
          /\ IF r.panic = ""
             THEN pc' = "processing" /\ UNCHANGED <<borrow, chan_borrow, why>>
             ELSE Unwind(r.panic)
    /\ UNCHANGED <<counters, port, idx, request, busy, pre>>

\* Faulty variant: processing is handed the response for the request and
\* the request for the response
MutProcessingStepSwapped ==
    /\ pc = "processing"
    /\ LET r == processing(counters[idx], response, request)
       IN /\ counters' = [counters EXCEPT ![idx] = r.self]
          /\ last' = Call("processing", idx, "", r.panic, r.arm,
                          <<response, request>>, <<counters[idx]>>)
          /\ IF r.panic = ""
             THEN pc' = "return" /\ UNCHANGED <<borrow, chan_borrow, why>>
             ELSE Unwind(r.panic)
    /\ UNCHANGED <<port, passVars>>

\* self.processing(consumption, question)
ProcessingStep ==
    /\ pc = "processing"
    /\ LET r == processing(counters[idx], request, response)
       IN /\ counters' = [counters EXCEPT ![idx] = r.self]
          /\ last' = Call("processing", idx, "", r.panic, r.arm,
                          <<request, response>>, <<counters[idx]>>)
          /\ IF r.panic = ""
             THEN pc' = "return" /\ UNCHANGED <<borrow, chan_borrow, why>>
             ELSE Unwind(r.panic)
    /\ UNCHANGED <<port, passVars>>

\* Faulty variant: the counter's guard is leaked (mem::forget) instead of
\* dropped when the loop body ends
MutReturnLeaksGuard(o) ==
    /\ pc = "return"
    /\ IF o = "fault"
       THEN /\ Crash("free")
            /\ UNCHANGED idx
       ELSE /\ chan_borrow' = "free"
            /\ idx' = idx + 1
            /\ pc' = "for"
            /\ UNCHANGED <<borrow, why>>
    /\ request' = <<>>
    /\ response' = <<>>
    /\ last' = Call("communicate", idx, o, "", "", <<>>, <<>>)
    /\ UNCHANGED <<counters, port, calls, busy, pre>>

\* communicate returns: my_crc is dropped (a free of the bogus pointer), then
\* parent_borrowed; back in the loop counter_borrowed is dropped.
ReturnStep(o) ==
    /\ pc = "return"
    /\ IF o = "fault"
       THEN /\ Crash("free")
            /\ UNCHANGED idx
       ELSE /\ borrow' = [borrow EXCEPT ![idx] = "free"]
            /\ chan_borrow' = "free"
            /\ idx' = idx + 1
            /\ pc' = "for"
            /\ UNCHANGED why
    /\ request' = <<>>
    /\ response' = <<>>
    /\ last' = Call("communicate", idx, o, "", "", <<>>, <<>>)
    /\ UNCHANGED <<counters, port, calls, busy, pre>>

\* -------------------------------------------------------------------- Next
\* One pass of the registry, step by step
Pass ==
    \/ StartPass
    \/ TryBorrowOk
    \/ TryBorrowErr
    \/ PassReturn
    \/ BorrowParent
    \/ \E o \in ReconfOutcomes : ReconfStep(o)
    \/ \E a \in AppendOutcomes : BuildStep(a)
    \/ \E o \in WriteOutcomes : SendStep(o)
    \/ \E o \in ReadOutcomes : ReadStep(o)
    \/ ProcessingStep
    \/ \E o \in DropOutcomes : ReturnStep(o)

\* The registry: devices are pushed, guards are held by callers, passes run.
Next ==
    \/ Attach
    \/ \E d \in Devices : HoldCounter(d)
    \/ \E d \in Devices : ReleaseCounter(d)
    \/ HoldChannel
    \/ ReleaseChannel
    \/ Pass

Spec == Init /\ [][Next]_vars

\* main after list.counters.push (line 317): one counter on the channel.
InitDevice ==
    /\ counters = <<NewCounter>>
    /\ borrow = <<"free">>
    /\ port = "None"
    /\ chan_borrow = "free"
    /\ pc = "main"
    /\ idx = 0
    /\ request = <<>>
    /\ response = <<>>
    /\ why = ""
    /\ last = NoCall
    /\ calls = <<>>
    /\ busy = {}
    /\ pre = <<>>

\* The device and the channel called directly, between passes.
NextDevice ==
    \/ \E d \in Devices : HoldCounter(d)
    \/ \E d \in Devices : ReleaseCounter(d)
    \/ \E d \in Devices, u \in Uuids : CallGuid(d, u)
    \/ \E d \in Devices, req \in Requests, resp \in Responses : CallProcessing(d, req, resp)
    \/ \E d \in Devices : CallConsumption(d)
    \/ \E d \in Devices, m \in MetadataOps : CallMetadata(d, m)
    \/ \E o \in ReconfOutcomes : CallReconf(o)
    \/ \E data \in Requests, o \in WriteOutcomes : CallSend(data, o)
    \/ \E o \in ReadOutcomes : CallRead(o)
    \/ Pass

SpecDevice == InitDevice /\ [][NextDevice]_vars

\* ================================================================= claims
IsConsumptionRequest(req) == Len(req) >= 5 /\ At(req, 2) = 5 /\ At(req, 3) = 0

TransportCall == last.op \in {"reconf", "send", "read"} /\ last.dev \in Devices

BigEndianBytes(w) == <<WordByte(w, 3), WordByte(w, 2), WordByte(w, 1), WordByte(w, 0)>>

LoopOver == pc = "for" /\ idx > Len(counters)

\* C1: a counter whose RefCell is already borrowed when the pass reaches it
\* gets no reconf, send or read made for it in that pass, and its
\* _consumption stays what it was when the pass started.
C1_SkipIfBusy ==
    \A d \in busy :
        /\ \A i \in 1..Len(calls) : calls[i].dev # d
        /\ counters[d]._consumption = pre[d]

\* a pass is over that skipped a borrowed counter and polled another one
C1_Witness ==
    /\ LoopOver
    /\ busy # {}
    /\ \E i \in 1..Len(calls) : calls[i].op = "read"

\* C2: a reconf, send or read that fails during one counter's poll does not
\* leave the pass: the loop goes on with the next counter.
C2_FailureIsolation ==
    (TransportCall /\ last.panic # "") => (pc = "for" /\ idx = last.dev + 1)

\* C3: a failed reconf, send or read ends the cycle with the counter free to
\* be polled by a later pass of the running program and its _consumption what
\* it was before the cycle.
C3_FailureBackToIdle ==
    (TransportCall /\ last.panic # "") =>
        /\ pc \notin {"panicked", "crashed"}
        /\ borrow[last.dev] = "free"
        /\ counters[last.dev]._consumption = pre[last.dev]

\* C4: when reconf, send and read succeeded and the response has at least 6
\* bytes, processing takes the consumption arm for the request communicate
\* built, and returns.
C4_OwnRequestRecognized ==
    (pc \in {"return", "panicked"} /\ last.op = "processing" /\ last.dev = idx
     /\ Len(last.args[2]) >= 6)
        => (last.arm = "consumption" /\ last.panic = "")

\* C5: the frame a poll sends is 8 bytes: address, 5, 0, 1 and the 4 bytes of
\* the CRC-32 of those four (in either byte order).
C5_RequestFrame ==
    (last.op = "send" /\ last.dev \in Devices) =>
        LET f == last.args[1]
            head == <<counters[last.dev].address, 5, 0, 1>>
        IN /\ Len(f) = 8
           /\ SubSeq(f, 1, 4) = head
           /\ SubSeq(f, 5, 8) \in {LittleEndian(checksum_ieee(head)),
                                   BigEndianBytes(checksum_ieee(head))}

\* C6: read does not fail when the port's read times out, and what it returns
\* has at most 255 bytes.
C6_ReadToleratesTimeout ==
    last.op = "read" =>
        /\ last.env = "timeout" => last.panic = ""
        /\ Len(last.ret) <= FrameMax

\* C7: processing of a consumption request with a response shorter than 6
\* bytes does not index out of bounds, and leaves _consumption alone.
C7_ShortResponseMalformed ==
    (last.op = "processing" /\ IsConsumptionRequest(last.args[1])
     /\ Len(last.args[2]) < 6)
        => /\ last.panic # "index"
           /\ pc # "panicked"
           /\ counters[last.dev]._consumption = last.ret[1]._consumption

\* C8: processing of a request whose bytes 2 and 3 are not (5, 0) returns
\* without a panic, whatever the response, and leaves every field of the
\* counter as it was.
C8_UnknownRequestNoOp ==
    (last.op = "processing" /\ Len(last.args[1]) >= 4
     /\ ~(At(last.args[1], 2) = 5 /\ At(last.args[1], 3) = 0))
        => /\ last.panic = ""
           /\ pc # "panicked"
           /\ counters[last.dev] = last.ret[1]

\* processing was called directly with another request and an empty response
C8_Witness ==
    /\ last.op = "processing"
    /\ pc = "main"
    /\ Len(last.args[1]) >= 4
    /\ At(last.args[1], 2) = 5 /\ At(last.args[1], 3) = 1
    /\ last.args[2] = <<>>

\* C9: processing of a consumption request with a response of 6 bytes or more
\* returns, and _consumption is the big-endian f64 that starts with response
\* bytes 4, 5, 2, 3, divided by 1000.
C9_DecodeSucceeds ==
    (last.op = "processing" /\ IsConsumptionRequest(last.args[1])
     /\ Len(last.args[2]) >= 6)
        => LET resp == last.args[2]
           IN /\ last.panic = ""
              /\ counters[last.dev]._consumption =
                    [be |-> <<At(resp, 4), At(resp, 5), At(resp, 2), At(resp, 3),
                              0, 0, 0, 0>>,
                     div |-> 1000]

\* C10: guid returns a non-empty string, the one it keeps in the counter, and
\* once the counter holds a guid no step of the program changes it.
C10_GuidStable ==
    [][/\ last'.op = "guid" =>
            (last'.ret # EmptyString /\ last'.ret = counters'[last'.dev].guid)
       /\ \A d \in Devices :
            counters[d].guid # EmptyString => counters'[d].guid = counters[d].guid
      ]_vars

\* a poll of the counter is over after its guid was generated
C10_Witness ==
    /\ pc = "return"
    /\ counters[idx].guid # EmptyString

\* C11: a pass started while the channel's RefCell is already borrowed does
\* not abort: the counter that cannot be served is skipped and the loop goes
\* on with the next one.
C11_ChannelBusyTolerated ==
    (last.op = "borrow_mut" /\ last.panic # "") => (pc = "for" /\ idx = last.dev + 1)

\* C12: at most one counter is inside an exchange (its guard and the channel's
\* held by the pass), and a send for one counter comes only after the read
\* that answers every earlier send for another counter.
InExchange(d) == borrow[d] = "list" /\ chan_borrow = "counter"

C12_OneExchangeAtATime ==
    /\ Cardinality({d \in Devices : InExchange(d)}) <= 1
    /\ \A j \in 1..Len(calls) :
        calls[j].op = "send" =>
            \A i \in 1..(j - 1) :
                (calls[i].op = "send" /\ calls[i].dev # calls[j].dev) =>
                    \E k \in (i + 1)..(j - 1) :
                        calls[k].op = "read" /\ calls[k].dev = calls[i].dev

\* a second counter has sent its request after the first one's exchange
C12_Witness ==
    \E i, j \in 1..Len(calls) :
        /\ i < j
        /\ calls[i].op = "send" /\ calls[j].op = "send"
        /\ calls[i].dev # calls[j].dev

\* how many times counter d was polled in the current pass
Polls(d) == Cardinality({i \in 1..Len(calls) : calls[i].op = "reconf" /\ calls[i].dev = d})

PassEnded == LoopOver \/ (pc \in {"panicked", "crashed"} /\ idx > 0)

\* C13: a pass polls the counters in push order, none twice, and when it has
\* ended every counter that no caller holds borrowed was polled exactly once.
C13_EachFreeCounterOnce ==
    /\ \A i, j \in 1..Len(calls) : i < j => calls[i].dev <= calls[j].dev
    /\ \A d \in Devices : Polls(d) <= 1
    /\ PassEnded => \A d \in Devices : (borrow[d] # "ext" => Polls(d) = 1)

\* C14: a pass that was started returns: whatever the transport calls
\* answer, the program is never left dead inside the pass.
C14_PassReturns ==
    pc \in {"main", "for", "communicate", "reconf", "build", "send", "read",
            "processing", "return"}

\* C15: the port becomes Some only in a reconf that completed: one that fails
\* at the open, at configure or at set_timeout leaves it None.
C15_HandleNoneUntilReconfOk ==
    [][(port = "None" /\ port' = "Some") =>
            (last'.op = "reconf" /\ last'.panic = "")]_vars

\* C16: reconf on a channel whose port is already open does not call
\* serial::open again and leaves the port open.
C16_ReconfOpensOnce ==
    (last.op = "reconf" /\ last.args = <<"Some">>) =>
        (last.ret = <<>> /\ port = "Some")

\* C18: two distinct counters of the list never have the same address, and no
\* step changes the address of a counter.
C18_AddressesUniqueAndFixed ==
    [][/\ \A d, e \in 1..Len(counters') :
            d # e => counters'[d].address # counters'[e].address
       /\ \A d \in Devices : counters'[d].address = counters[d].address
      ]_vars

\* the channel calls made for counter d in the current pass, in order
CallsOf(d) == SelectSeq(calls, LAMBDA c : c.dev = d)

CycleOrder == <<"reconf", "send", "read">>

\* C19: in one poll cycle the channel calls are reconf, send, read in that
\* order, each at most once; send finds the port open; processing gets the
\* frame that was sent and the bytes that read returned.
C19_CycleOrder ==
    /\ \A d \in Devices :
        /\ Len(CallsOf(d)) <= 3
        /\ \A i \in 1..Len(CallsOf(d)) : CallsOf(d)[i].op = CycleOrder[i]
    /\ (last.op = "send" /\ last.dev \in Devices) => port = "Some"
    /\ (last.op = "processing" /\ last.dev \in Devices) =>
        /\ Len(CallsOf(last.dev)) = 3
        /\ last.args = <<CallsOf(last.dev)[2].data, CallsOf(last.dev)[3].data>>

\* a cycle ran through: processing returned for a response of 6 bytes
C19_Witness ==
    /\ pc = "return"
    /\ last.op = "processing"
    /\ Len(last.args[1]) = 8
    /\ Len(last.args[2]) = 6

\* C20: outside a poll cycle (between passes, at the head of the loop, after
\* a panic unwound) the pass holds no guard: no counter and not the channel.
C20_GuardsReleased ==
    pc \in {"main", "for", "panicked"} =>
        /\ \A d \in Devices : borrow[d] # "list"
        /\ chan_borrow # "counter"

\* a pass returned to main after it polled a counter to the end
C20_Witness ==
    /\ pc = "main"
    /\ last.op = "list.processing"
    /\ last.ret = <<"returned">>
    /\ port = "Some"
    /\ \A d \in Devices : borrow[d] = "free"
    /\ Len(counters) = MaxCounters

====
